---- MODULE Spec2Model ----
(***************************************************************************)
(* Session lifecycle of the MCP example servers:                           *)
(*   - the Streamable HTTP router (http-server.ts) with its                *)
(*     SessionRegistry (session-registry.ts),                              *)
(*   - the singleton server (src/server.ts, app.all('/sse')) with its      *)
(*     global `transports` object,                                         *)
(*   - the InMemoryEventStore (in-memory-event-store.ts).                  *)
(* The SDK transport (NodeStreamableHTTPServerTransport) is the            *)
(* environment of the router: it mints the session identifier, fires the   *)
(* callbacks the repository registers and answers the request.             *)
(***************************************************************************)
EXTENDS Integers, Sequences, FiniteSets, Bags, TLC

\* ------------------------------------------------------------------ bounds
MaxTransports == 2      \* handshakes (transports created) in one run
MaxEvents == 4          \* storeEvent calls on one event store
MaxClock == 1           \* milliseconds the clock advances
MaxRequests == 2        \* requests in flight at the same time
MaxPending == 2         \* request() calls of the browser client in one run
MaxCalls == 3           \* calculations pushed to the histories in one run

VARIABLES
    variant,      \* "registry": http-server.ts + SessionRegistry; "singleton": server.ts
    sessions,     \* SessionRegistry.sessions: Map sessionId -> transport
    transports,   \* server.ts: the global object {[sessionId]: transport}
    tp,           \* the transport objects, by creation index
    req,          \* the bag of requests suspended at an await: pc "connecting" and
                  \* "respond" (a handshake), "inTransport" (a POST or GET handed to
                  \* its transport), "terminate" and "terminating" (a DELETE)
    known,        \* session identifiers a client has received in a handshake response
    terminated,   \* session identifiers whose DELETE has been answered
    closeAllPc,   \* SessionRegistry.closeAll(): "idle", "pending", "resolved", "rejected"
    closeAllWait, \* the transports whose closeSession closeAll() still awaits
    closeAllLive, \* the identifiers that were registered when closeAll() was called
    closeAllFailed, \* a transport.close() or closeServer() started by closeAll() has rejected
    closeAllResults, \* how the closeSession promises of closeAll() have settled so far
    events,       \* InMemoryEventStore.events: the Map's entries in insertion order
    now,          \* Date.now()
    appended,     \* what storeEvent was called for and what it returned, in call order
    replay,       \* the replayEventsAfter call of the attached client
    live,         \* the messages written to the attached stream after the replay
    otherEvents,  \* InMemoryEventStore.events of the store of another session
    client,       \* what the client of the stream has seen: the last message it
                  \* received, the one it had received when it last attached, and
                  \* the messages stored while it had no stream attached
    sess,         \* the sessions of the Domain Handler view: status and handler
    hist,         \* history / calculationHistory of every handler (McpServer)
    conn,         \* the transport every handler is connected to (0: none)
    calls,        \* the tool calls whose handler has run and whose response is due
    obs,          \* the last response every session's client has received
    rq,           \* the request followed through a router to its response
    res,          \* the ServerResponse of that request
    crashed,      \* the process has died of an unhandled rejection
    task,         \* the notification loop a demo_progress call of every session started
    notes,        \* how many notifications the loop of every session has emitted
    unhandled,    \* a promise nothing awaits or catches has rejected
    exitPc,       \* gracefulShutdown: "running", "closing", "closed", "exited"
    sweep,        \* the shutdown iteration over the session map
    browser       \* BrowserSSECalculatorClient: connected, requestId, and for every
                  \* request() call its pendingRequests entry, timer and promises

shutdown == <<closeAllPc, closeAllWait, closeAllLive, closeAllFailed, closeAllResults>>
server == <<variant, sessions, transports, tp, req, known, terminated, shutdown>>
store == <<events, now, appended, replay, live, otherEvents, client>>
domain == <<sess, hist, conn, calls, obs>>
routing == <<rq, res, crashed>>
background == <<task, notes, unhandled>>
process == <<exitPc, sweep>>
rest == <<domain, routing, background, process, browser>>
vars == <<server, store, rest>>

\* ------------------------------------------------------------------ values
T == 1..MaxTransports

NoId == ""                      \* no mcp-session-id header (undefined or empty: falsy)
NeverIssued == "never-issued"   \* a well-formed identifier no handshake returned
ProtoKeys == {"constructor"}    \* names every plain object inherits from Object.prototype
Undefined == 0                  \* Map.get / property lookup that finds nothing
Inherited == -1                 \* a truthy value that is no transport (Object.prototype member)

\* a generator that would return the same identifier every time
Uuid_constant(n) == "uuid-1"

\* randomUUID(): the n-th identifier minted; distinct calls give distinct values
Uuid(n) == "uuid-" \o ToString(n)

Inputs == {<<"POST", "initialize">>, <<"POST", "call">>, <<"POST", "malformed">>,
           <<"GET", "none">>, <<"DELETE", "none">>}

\* closing: the Promise.allSettled of a closeSession of the transport is pending
\* origin: the request createSessionTransport / new Transport was called for
\* released: the releases closeSession has called for the session
\* settled: how the promise of that closeSession has settled ("" while it has not)
NoTransport == [status |-> "absent", sessionId |-> NoId, closing |-> FALSE,
                origin |-> <<>>, released |-> {}, settled |-> ""]
Request(pc, s, t, own) == [pc |-> pc, sid |-> s, t |-> t, own |-> own]
InFlight == BagToSet(req)
Replace(q, new) == (req (-) SetToBag({q})) (+) SetToBag({new})
Remove(q) == req (-) SetToBag({q})

EmptyMap == [k \in {} |-> 0]
MapSet(m, k, v) == (k :> v) @@ m
MapDelete(m, k) == [x \in DOMAIN m \ {k} |-> m[x]]

Created == {t \in T : tp[t].status # "absent"}
Minted == {t \in T : tp[t].sessionId # NoId}
FreshT == Cardinality(Created) + 1

\* identifiers a client can put in the header
ClientIds == known \cup {NoId, NeverIssued} \cup ProtoKeys

\* ------------------------------------------------------------ InMemoryEventStore
Streams == {"s1", "s2"}         \* stream identifiers of one transport
RandomSuffixes == {"a", "b"}    \* Math.random().toString(36).slice(2, 10)
UnknownEventId == <<"s1", 0, "zz">>   \* an event identifier the store never returned

\* const sharedMcpServer = createCalculatorServer(): the one handler of server.ts
sharedMcpServer == 0
Handlers == {sharedMcpServer} \cup T

NoSession == [status |-> "absent", handler |-> sharedMcpServer]
NoResponse == [kind |-> "none", seen |-> {}]

\* no request is being followed
NoRq == [pc |-> "none", build |-> "", m |-> "", s |-> NoId, b |-> "", kind |-> "",
         raised |-> FALSE]
\* a ServerResponse nothing has been written to; detail is the text of an
\* internal error that went into the message
NoRes == [status |-> 0, code |-> 0, detail |-> "", headersSent |-> FALSE, ended |-> FALSE]
\* error.message of an exception raised inside the server
ErrorTexts == {"ECONNRESET", "Cannot read properties of undefined"}

\* a request() call that has not been made. entry: its id is in pendingRequests;
\* timer: "none", "armed", "cleared" or "fired"; responsePromise: the promise the
\* entry's resolve and reject belong to; result: the promise request() returned
NoCall == [pc |-> "none", entry |-> FALSE, timer |-> "none", responsePromise |-> "pending",
           result |-> "pending"]
NoBrowser == [connected |-> FALSE, requestId |-> 0, pending |-> [i \in 1..MaxPending |-> NoCall]]

\* no notification loop has been started; caught counts the catch blocks entered
NoTask == [pc |-> "none", i |-> 0, caught |-> 0]

\* no shutdown iteration has started; keys: the identifiers still to visit,
\* live: the identifiers in the map when the iteration started, attempts: the
\* transport.close() calls of the iteration, errors: the exceptions it raised
NoSweep == [pc |-> "idle", loop |-> "", keys |-> <<>>, live |-> {},
            attempts |-> [t \in T |-> 0], errors |-> 0]

\* a client that has received nothing yet
NoClient == [received |-> 0, reattachedWith |-> 0, missed |-> {}]

NoReplay == [pc |-> "idle", lastEventId |-> <<>>, ordered |-> <<>>, i |-> 0,
             sent |-> <<>>, result |-> "", seen |-> 0]

\* `${streamId}_${Date.now()}_${Math.random()...}`
eventIdOf(streamId, ms, random) == <<streamId, ms, random>>

\* a lookup that would take the first entry for an identifier it does not find
eventIndex_first(evs, eventId) ==
    IF \E i \in 1..Len(evs) : evs[i].id = eventId
    THEN CHOOSE i \in 1..Len(evs) : evs[i].id = eventId
    ELSE IF evs = <<>> THEN 0 ELSE 1

\* this.events.get(eventId): the index of the entry, 0 when there is none
eventIndex(evs, eventId) ==
    IF \E i \in 1..Len(evs) : evs[i].id = eventId
    THEN CHOOSE i \in 1..Len(evs) : evs[i].id = eventId
    ELSE 0

\* a sort that would put an entry before the entries of its millisecond
RECURSIVE insertByCreatedAt_unstable(_, _)
insertByCreatedAt_unstable(sorted, e) ==
    IF sorted = <<>> THEN <<e>>
    ELSE IF Head(sorted).createdAtMs < e.createdAtMs
         THEN <<Head(sorted)>> \o insertByCreatedAt_unstable(Tail(sorted), e)
         ELSE <<e>> \o sorted

\* a log of two entries that drops its oldest entry for a new one
eventsSet_capped(evs, entry) ==
    LET all == IF eventIndex(evs, entry.id) = 0 THEN Append(evs, entry)
               ELSE [evs EXCEPT ![eventIndex(evs, entry.id)] = entry]
    IN  IF Len(all) > 2 THEN Tail(all) ELSE all

\* this.events.set(eventId, value): a new key goes last, an existing key keeps
\* its place and takes the new value
eventsSet(evs, entry) ==
    IF eventIndex(evs, entry.id) = 0 THEN Append(evs, entry)
    ELSE [evs EXCEPT ![eventIndex(evs, entry.id)] = entry]

\* [...].sort((a, b) => a[1].createdAtMs - b[1].createdAtMs): a stable sort
RECURSIVE insertByCreatedAt(_, _)
insertByCreatedAt(sorted, e) ==
    IF sorted = <<>> THEN <<e>>
    ELSE IF Head(sorted).createdAtMs <= e.createdAtMs
         THEN <<Head(sorted)>> \o insertByCreatedAt(Tail(sorted), e)
         ELSE <<e>> \o sorted

RECURSIVE sortByCreatedAt(_)
sortByCreatedAt(evs) ==
    IF evs = <<>> THEN <<>>
    ELSE insertByCreatedAt(sortByCreatedAt(SubSeq(evs, 1, Len(evs) - 1)), evs[Len(evs)])

\* a loop that would also send the event lastEventId names
replayLoop_inclusive(ordered, i, found, lastEventId, streamId) ==
    IF \E j \in i..Len(ordered) : ordered[j].streamId = streamId
                                   /\ (found \/ ordered[j].id = lastEventId)
    THEN CHOOSE j \in i..Len(ordered) :
            /\ ordered[j].streamId = streamId /\ (found \/ ordered[j].id = lastEventId)
            /\ \A h \in i..(j - 1) : ~(ordered[h].streamId = streamId
                                         /\ (found \/ ordered[h].id = lastEventId))
    ELSE Len(ordered) + 1

\* the for loop of replayEventsAfter from entry i on, up to the next send it
\* awaits: the index of the entry to send (past the end when the loop is over)
RECURSIVE replayLoop(_, _, _, _, _)
replayLoop(ordered, i, found, lastEventId, streamId) ==
    IF i > Len(ordered) THEN i
    ELSE IF ordered[i].streamId # streamId
         THEN replayLoop(ordered, i + 1, found, lastEventId, streamId)
    ELSE IF ordered[i].id = lastEventId
         THEN replayLoop(ordered, i + 1, TRUE, lastEventId, streamId)
    ELSE IF found THEN i
    ELSE replayLoop(ordered, i + 1, found, lastEventId, streamId)

\* ------------------------------------------------------------ SessionRegistry
get(sessionId) == IF sessionId \in DOMAIN sessions THEN sessions[sessionId] ELSE Undefined

\* a count that would report every session ever registered
count_everCreated == Cardinality(Minted)

count == Cardinality(DOMAIN sessions)

\* a callback that would register the transport created last, not its own
onsessioninitialized_shared(t, sessionId) == MapSet(sessions, sessionId, Cardinality(Created))

\* a callback that would register nothing
onsessioninitialized_noop(t, sessionId) == sessions

\* onsessioninitialized of the transport t created by createSessionTransport
onsessioninitialized(t, sessionId) == MapSet(sessions, sessionId, t)

\* a closeSession that would delete the entry only after its await
closeSession_keep(m, sessionId) == m

\* closeSession(sessionId) up to its await: the map after it
closeSession_map(m, sessionId) ==
    IF sessionId \notin DOMAIN m THEN m ELSE MapDelete(m, sessionId)

\* a closeSession that would await transport.close() before it calls closeServer()
closeSession_tp_sequential(tps, m, sessionId) ==
    IF sessionId \notin DOMAIN m THEN tps
    ELSE [tps EXCEPT ![m[sessionId]].status = "closed", ![m[sessionId]].closing = TRUE,
                     ![m[sessionId]].released = {"transport.close"}]

\* a closeSession that would close the transport of an identifier it no longer holds
closeSession_tp_eager(tps, m, sessionId) ==
    [t \in DOMAIN tps |->
        IF tps[t].sessionId = sessionId /\ sessionId # NoId
        THEN [tps[t] EXCEPT !.status = "closed", !.closing = TRUE]
        ELSE tps[t]]

\* closeSession(sessionId) up to its await: state.transport.close() and
\* state.closeServer() have been called, Promise.allSettled is pending
closeSession_tp(tps, m, sessionId) ==
    IF sessionId \notin DOMAIN m THEN tps
    ELSE [tps EXCEPT ![m[sessionId]].status = "closed", ![m[sessionId]].closing = TRUE,
                     ![m[sessionId]].released = {"transport.close", "closeServer"}]

\* closeAll(): the keys whose closeSession is started, [...this.sessions.keys()]
closeAll_keys == DOMAIN sessions

\* ------------------------------------------------------------ server.ts
\* transports[sessionId] on the plain object: own properties first, then the
\* properties inherited from Object.prototype
lookup(sessionId) ==
    IF sessionId \in DOMAIN transports THEN transports[sessionId]
    ELSE IF sessionId \in ProtoKeys THEN Inherited
    ELSE Undefined

\* onsessioninitialized: transports[newSessionId] = transport
singleton_onsessioninitialized(t, newSessionId) == MapSet(transports, newSessionId, t)

\* an onclose that would leave the entry
singleton_onclose_keep(m, sid) == m

\* transport.onclose: if (sid && transports[sid]) delete transports[sid]
singleton_onclose(m, sid) ==
    IF sid # NoId /\ sid \in DOMAIN m THEN MapDelete(m, sid) ELSE m

\* ------------------------------------------------------------ dispositions
\* what the router does with a request: it answers it itself (sendJsonRpcError,
\* res.status().json()), hands it to transport t, or creates a transport for it
AnswerWith(status, code) == [kind |-> "answer", status |-> status, code |-> code, t |-> 0]
HandTo(t) == [kind |-> "hand", status |-> 0, code |-> 0, t |-> t]
CreateSession == [kind |-> "create", status |-> 0, code |-> 0, t |-> 0]

\* new NodeStreamableHTTPServerTransport(...): unbound, no identifier yet
NewTransport(m, s, b) ==
    [tp EXCEPT ![FreshT] = [NoTransport EXCEPT !.status = "unbound", !.origin = <<m, s, b>>]]

\* createSessionTransport() up to its await of server.connect(transport): a new
\* event store, handler and transport; the map is not touched
createSessionTransport(m, s, b) ==
    /\ tp' = NewTransport(m, s, b)
    /\ sessions' = sessions

\* the request is with transport t and suspended at an await
Suspend(s, t, pc) ==
    /\ BagCardinality(req) < MaxRequests
    /\ req' = req (+) SetToBag({Request(pc, s, t, FALSE)})

\* ------------------------------------------------------------ http-server.ts
\* a router that would create a session for any POST without identifier
handleMcpRequest_anyPost(m, s, b) ==
    CASE b = "malformed" -> AnswerWith(400, -32700)
      [] b # "malformed" /\ s # NoId /\ get(s) = Undefined -> AnswerWith(404, -32000)
      [] b # "malformed" /\ s # NoId /\ get(s) # Undefined -> HandTo(get(s))
      [] b # "malformed" /\ s = NoId /\ m = "POST" -> CreateSession
      [] b # "malformed" /\ s = NoId /\ m # "POST" -> AnswerWith(400, -32000)

\* handleMcpRequest: the disposition of a request with method m, mcp-session-id s
\* ("" for none) and body b, decided from the registry as it is now
handleMcpRequest(m, s, b) ==
    CASE b = "malformed" -> AnswerWith(400, -32700)
      [] b # "malformed" /\ s # NoId /\ get(s) = Undefined -> AnswerWith(404, -32000)
      [] b # "malformed" /\ s # NoId /\ get(s) # Undefined -> HandTo(get(s))
      [] b # "malformed" /\ s = NoId /\ m = "POST" /\ b # "initialize" -> AnswerWith(400, -32600)
      [] b # "malformed" /\ s = NoId /\ m = "POST" /\ b = "initialize" -> CreateSession
      [] b # "malformed" /\ s = NoId /\ m # "POST" -> AnswerWith(400, -32000)

\* one request through handleMcpRequest, from the return of readJsonBody to the
\* next await (none when the router answers the request itself)
McpRequest(m, s, b) ==
    /\ variant = "registry"
    /\ closeAllPc = "idle"
    /\ LET d == handleMcpRequest(m, s, b)
       IN  CASE d.kind = "answer" -> UNCHANGED <<sessions, tp, req>>
             [] d.kind = "hand" ->
                  /\ Suspend(s, d.t, IF m = "DELETE" THEN "terminate" ELSE "inTransport")
                  /\ UNCHANGED <<sessions, tp>>
             [] d.kind = "create" ->
                  /\ FreshT \in T
                  /\ createSessionTransport(m, s, b)
                  /\ Suspend(s, FreshT, "connecting")
    /\ UNCHANGED <<variant, transports, known, terminated, shutdown, store, rest>>

\* ------------------------------------------------------------ server.ts
\* app.all('/sse'): the disposition of a request; express.json() has rejected a
\* malformed body before the route handler runs
sseHandler(m, s, b) ==
    CASE b = "malformed" -> AnswerWith(400, 0)
      \* CASE 1: existing session
      [] b # "malformed" /\ s # NoId /\ lookup(s) \in T -> HandTo(lookup(s))
      \* CASE 1 with an inherited member: transport.handleRequest is not a function,
      \* the TypeError is caught and answered
      [] b # "malformed" /\ s # NoId /\ lookup(s) = Inherited -> AnswerWith(500, -32603)
      \* CASE 2: new session
      [] b # "malformed" /\ s = NoId /\ m = "POST" /\ b = "initialize" -> CreateSession
      \* CASE 3
      [] b # "malformed" /\ s # NoId /\ lookup(s) = Undefined -> AnswerWith(404, -32001)
      [] b # "malformed" /\ s = NoId /\ ~(m = "POST" /\ b = "initialize") ->
            AnswerWith(400, -32600)

\* one request through app.all('/sse') to its first await
SseRequest(m, s, b) ==
    /\ variant = "singleton"
    /\ LET d == sseHandler(m, s, b)
       IN  CASE d.kind = "answer" -> UNCHANGED <<transports, tp, req>>
             [] d.kind = "hand" ->
                  /\ Suspend(s, d.t, IF m = "DELETE" THEN "terminate" ELSE "inTransport")
                  /\ UNCHANGED <<transports, tp>>
             [] d.kind = "create" ->
                  /\ FreshT \in T
                  /\ tp' = NewTransport(m, s, b)
                  /\ Suspend(s, FreshT, "connecting")
                  /\ UNCHANGED transports
    /\ UNCHANGED <<variant, sessions, known, terminated, shutdown, store, rest>>

Receive ==
    \E in \in Inputs, s \in ClientIds :
        \/ McpRequest(in[1], s, in[2])
        \/ SseRequest(in[1], s, in[2])

\* ------------------------------------------------------------ the transport
Outcomes == {"fulfilled", "rejected"}

\* Promise.all: rejected as soon as one of its members is
promiseAll(outcomes) == IF "rejected" \in outcomes THEN "rejected" ELSE "fulfilled"

\* Promise.allSettled: fulfilled whatever the outcomes of its members
allSettled(outcomes) == "fulfilled"

\* transport.handleRequest of an initialize request on the new transport: the
\* identifier is minted and the on-identifier-assigned callback runs in the same
\* synchronous stretch; the response is written later
Handshake(q) ==
    /\ q.pc = "connecting"
    /\ LET t == q.t
           sid == Uuid(Cardinality(Minted) + 1)
       IN  /\ tp' = [tp EXCEPT ![t].sessionId = sid, ![t].status = "bound"]
           /\ IF variant = "registry"
              THEN /\ sessions' = onsessioninitialized(t, sid)
                   /\ UNCHANGED transports
              ELSE /\ transports' = singleton_onsessioninitialized(t, sid)
                   /\ UNCHANGED sessions
    /\ req' = Replace(q, [q EXCEPT !.pc = "respond"])
    /\ UNCHANGED <<variant, known, terminated, shutdown, store, rest>>

\* the handshake response, carrying the identifier in its mcp-session-id header
HandshakeResponse(q) ==
    /\ q.pc = "respond"
    /\ known' = known \cup {tp[q.t].sessionId}
    /\ req' = Remove(q)
    /\ UNCHANGED <<variant, sessions, transports, tp, terminated, shutdown, store, rest>>

\* a POST or GET handed to a transport is answered by the transport
TransportHandle(q) ==
    /\ q.pc = "inTransport"
    /\ req' = Remove(q)
    /\ UNCHANGED <<variant, sessions, transports, tp, known, terminated, shutdown, store, rest>>

\* an onclose that would leave the registry as it is
registry_onclose_ignore(m, t) == m

\* transport.onclose as the registry sets it: void this.closeSession(sessionId)
\* for the transport's own identifier, if it has one
registry_onclose_map(m, t) ==
    IF tp[t].sessionId # NoId THEN closeSession_map(m, tp[t].sessionId) ELSE m

registry_onclose_tp(tps, m, t) ==
    IF tp[t].sessionId # NoId THEN closeSession_tp(tps, m, tp[t].sessionId) ELSE tps

\* DELETE on the transport: the registry variant awaits onsessionclosed, that is
\* closeSession(sessionId); the singleton registers no onsessionclosed, there the
\* transport closes itself and its onclose deletes the entry
Terminate(q) ==
    /\ q.pc = "terminate"
    /\ LET t == q.t
           sid == tp[t].sessionId
       IN  IF variant = "registry"
           THEN /\ sessions' = closeSession_map(sessions, sid)
                /\ tp' = closeSession_tp(tp, sessions, sid)
                /\ req' = Replace(q, [q EXCEPT !.pc = "terminating",
                                                !.own = (sid \in DOMAIN sessions)])
                /\ UNCHANGED transports
           ELSE /\ transports' = singleton_onclose(transports, sid)
                /\ tp' = [tp EXCEPT ![t].status = "closed"]
                /\ req' = Replace(q, [q EXCEPT !.pc = "terminating"])
                /\ UNCHANGED sessions
    /\ UNCHANGED <<variant, known, terminated, shutdown, store, rest>>

\* the DELETE is answered once the awaited closeSession has settled; the transport
\* then closes itself (again), which fires transport.onclose
TerminateResponse(q) ==
    /\ q.pc = "terminating"
    /\ LET t == q.t
           sid == tp[t].sessionId
       IN  /\ q.own => ~tp[t].closing
           /\ IF variant = "registry"
              THEN /\ sessions' = registry_onclose_map(sessions, t)
                   /\ tp' = [registry_onclose_tp(tp, sessions, t) EXCEPT ![t].status = "closed"]
                   /\ UNCHANGED transports
              ELSE /\ transports' = singleton_onclose(transports, sid)
                   /\ tp' = [tp EXCEPT ![t].status = "closed"]
                   /\ UNCHANGED sessions
           /\ terminated' = terminated \cup {sid}
    /\ req' = Remove(q)
    /\ UNCHANGED <<variant, known, shutdown, store, rest>>

\* Promise.allSettled([state.transport.close(), state.closeServer()]) of a
\* closeSession settles, whether or not one of the two rejected
CloseSessionSettled(t) ==
    /\ tp[t].closing
    /\ \E transportClose \in Outcomes, closeServer \in Outcomes :
         /\ closeAllFailed' = (closeAllFailed \/ (t \in closeAllWait
                                  /\ "rejected" \in {transportClose, closeServer}))
         /\ closeAllResults' = IF t \in closeAllWait
                               THEN closeAllResults \cup {allSettled({transportClose, closeServer})}
                               ELSE closeAllResults
         /\ tp' = [tp EXCEPT ![t].closing = FALSE,
                             ![t].settled = allSettled({transportClose, closeServer})]
    /\ closeAllWait' = closeAllWait \ {t}
    /\ UNCHANGED <<variant, sessions, transports, req, known, terminated, closeAllPc,
                   closeAllLive, store, rest>>

\* the channel of a bound transport goes away: the transport closes and fires
\* transport.onclose
ChannelClose(t) ==
    /\ tp[t].status = "bound"
    /\ IF variant = "registry"
       THEN /\ sessions' = registry_onclose_map(sessions, t)
            /\ tp' = [registry_onclose_tp(tp, sessions, t) EXCEPT ![t].status = "closed"]
            /\ UNCHANGED transports
       ELSE /\ transports' = singleton_onclose(transports, tp[t].sessionId)
            /\ tp' = [tp EXCEPT ![t].status = "closed"]
            /\ UNCHANGED sessions
    /\ UNCHANGED <<variant, req, known, terminated, shutdown, store, rest>>

\* the closeSession calls of closeAll(), one per key and all in the same
\* synchronous stretch
RECURSIVE closeAll_fold(_, _, _)
closeAll_fold(keys, m, tps) ==
    IF keys = {} THEN <<m, tps>>
    ELSE LET k == CHOOSE x \in keys : TRUE
         IN  closeAll_fold(keys \ {k}, closeSession_map(m, k), closeSession_tp(tps, m, k))

CloseAll ==
    /\ variant = "registry"
    /\ closeAllPc = "idle"
    /\ LET after == closeAll_fold(closeAll_keys, sessions, tp)
       IN  /\ sessions' = after[1]
           /\ tp' = after[2]
    /\ closeAllWait' = {sessions[k] : k \in closeAll_keys}
    /\ closeAllLive' = DOMAIN sessions
    /\ closeAllPc' = "pending"
    /\ UNCHANGED <<variant, transports, req, known, terminated, closeAllFailed,
                   closeAllResults, store, rest>>

\* the outer Promise.allSettled of closeAll(): settles when every closeSession
\* it started has settled; gracefulShutdown then exits the process
CloseAllSettled ==
    /\ closeAllPc = "pending"
    /\ closeAllWait = {}
    /\ closeAllPc' = IF allSettled(closeAllResults) = "fulfilled"
                     THEN "resolved" ELSE "rejected"
    /\ UNCHANGED <<variant, sessions, transports, tp, req, known, terminated, closeAllWait,
                   closeAllLive, closeAllFailed, closeAllResults, store, rest>>

Init ==
    /\ variant \in {"registry", "singleton"}
    /\ sessions = EmptyMap
    /\ transports = EmptyMap
    /\ tp = [t \in T |-> NoTransport]
    /\ req = EmptyBag
    /\ known = {}
    /\ terminated = {}
    /\ closeAllPc = "idle"
    /\ closeAllWait = {}
    /\ closeAllLive = {}
    /\ closeAllFailed = FALSE
    /\ closeAllResults = {}
    /\ events = <<>>
    /\ now = 0
    /\ appended = <<>>
    /\ replay = NoReplay
    /\ live = <<>>
    /\ otherEvents = <<>>
    /\ client = NoClient
    /\ sess = [t \in T |-> NoSession]
    /\ hist = [h \in Handlers |-> <<>>]
    /\ conn = [h \in Handlers |-> 0]
    /\ calls = {}
    /\ obs = [t \in T |-> NoResponse]
    /\ rq = NoRq
    /\ res = NoRes
    /\ crashed = FALSE
    /\ task = [t \in T |-> NoTask]
    /\ notes = [t \in T |-> 0]
    /\ unhandled = FALSE
    /\ exitPc = "running"
    /\ sweep = NoSweep
    /\ browser = NoBrowser

Serve ==
    \/ Receive
    \/ \E q \in InFlight : Handshake(q)
    \/ \E q \in InFlight : HandshakeResponse(q)
    \/ \E q \in InFlight : TransportHandle(q)
    \/ \E q \in InFlight : Terminate(q)
    \/ \E q \in InFlight : TerminateResponse(q)
    \/ \E t \in T : CloseSessionSettled(t)
    \/ \E t \in T : ChannelClose(t)

Next == Serve

\* the server with its process-wide shutdown; nothing runs after process.exit
NextShutdown ==
    \/ closeAllPc \in {"idle", "pending"} /\ Serve
    \/ CloseAll
    \/ CloseAllSettled

Spec == Init /\ [][Next]_vars

\* ------------------------------------------------------------ the event store
\* the transport's send after storeEvent: the message is written to the stream if
\* one is attached, which it is once the replay has returned the stream identifier
liveWrite(streamId, message) ==
    IF replay.pc = "done" /\ replay.result = streamId THEN Append(live, message) ELSE live

\* storeEvent(streamId, message): Date.now() is read twice, for the identifier and
\* for createdAtMs, and does not go backwards
storeEvent(streamId, random, createdAtMs) ==
    /\ Len(appended) < MaxEvents
    /\ createdAtMs \in {now, now + 1}
    /\ createdAtMs <= MaxClock
    /\ LET eventId == eventIdOf(streamId, now, random)
           message == Len(appended) + 1
       IN  /\ events' = eventsSet(events, [id |-> eventId, streamId |-> streamId,
                                           message |-> message, createdAtMs |-> createdAtMs])
           /\ appended' = Append(appended, [id |-> eventId, streamId |-> streamId,
                                            message |-> message])
           /\ live' = liveWrite(streamId, message)
    /\ now' = createdAtMs
    /\ UNCHANGED <<server, rest, replay, otherEvents>>

Tick ==
    /\ now < MaxClock
    /\ now' = now + 1
    /\ UNCHANGED <<server, rest, events, appended, replay, live, otherEvents>>

\* replayEventsAfter(lastEventId, {send}) up to its first await
ReplayStart(lastEventId) ==
    /\ replay.pc = "idle"
    /\ LET at == eventIndex(events, lastEventId)
       IN  IF at = 0
           THEN replay' = [NoReplay EXCEPT !.pc = "done", !.lastEventId = lastEventId,
                                           !.seen = Len(appended)]
           ELSE LET streamId == events[at].streamId
                    ordered == sortByCreatedAt(events)
                    i == replayLoop(ordered, 1, FALSE, lastEventId, streamId)
                IN  replay' = [pc |-> IF i > Len(ordered) THEN "done" ELSE "sending",
                               lastEventId |-> lastEventId,
                               ordered |-> ordered,
                               i |-> i,
                               sent |-> IF i > Len(ordered) THEN <<>>
                                        ELSE <<ordered[i].message>>,
                               result |-> streamId,
                               seen |-> Len(appended)]
    /\ UNCHANGED <<server, rest, events, now, appended, live, otherEvents>>

\* the awaited send has resolved: the loop goes on to the next send or returns
ReplayResume ==
    /\ replay.pc = "sending"
    /\ LET i == replayLoop(replay.ordered, replay.i + 1, TRUE, replay.lastEventId,
                           replay.result)
       IN  replay' = [replay EXCEPT
                        !.pc = IF i > Len(replay.ordered) THEN "done" ELSE "sending",
                        !.i = i,
                        !.sent = IF i > Len(replay.ordered) THEN @
                                 ELSE Append(@, replay.ordered[i].message)]
    /\ UNCHANGED <<server, rest, events, now, appended, live, otherEvents>>

\* the client drops the stream; it may attach again
Detach ==
    /\ replay.pc = "done"
    /\ replay' = NoReplay
    /\ live' = <<>>
    /\ UNCHANGED <<server, rest, events, now, appended, otherEvents>>

NextStore ==
    \/ /\ \E streamId \in Streams, random \in RandomSuffixes, createdAtMs \in 0..MaxClock :
             storeEvent(streamId, random, createdAtMs)
       /\ UNCHANGED client
    \/ Tick /\ UNCHANGED client
    \/ /\ \E e \in {events[i].id : i \in 1..Len(events)} \cup {UnknownEventId} : ReplayStart(e)
       /\ UNCHANGED client
    \/ ReplayResume /\ UNCHANGED client
    \/ Detach /\ UNCHANGED client

\* one event store, the one createSessionTransport creates for a session
InitStore == Init /\ variant = "registry"

SpecStore == InitStore /\ [][NextStore]_vars

\* ------------------------------------------------------------ two sessions' stores
\* one store for all sessions: the entry would go to the log under study
storeOfOther_shared(evs, other, entry) == <<eventsSet(evs, entry), other>>

\* createSessionTransport gives every session a new InMemoryEventStore, and
\* events is a field of the instance: the logs of the session under study and of
\* another session after the other session's store has set an entry
storeOfOther(evs, other, entry) == <<evs, eventsSet(other, entry)>>

\* storeEvent(streamId, message) on the store of another session, whose streams
\* have the same identifiers; its messages are numbered -1, -2, ...
storeEventOther(streamId, random, createdAtMs) ==
    /\ createdAtMs \in {now, now + 1}
    /\ createdAtMs <= MaxClock
    /\ LET eventId == eventIdOf(streamId, now, random)
           after == storeOfOther(events, otherEvents,
                                 [id |-> eventId, streamId |-> streamId,
                                  message |-> 0 - (Len(otherEvents) + 1),
                                  createdAtMs |-> createdAtMs])
       IN  /\ events' = after[1]
           /\ otherEvents' = after[2]
    /\ now' = createdAtMs
    /\ UNCHANGED <<server, rest, appended, replay, live>>

\* storeEvent has been called fewer than MaxEvents - 1 times on the two stores
\* together
LogsBudget == Len(appended) + Len(otherEvents) < MaxEvents - 1

\* the two stores side by side; here the two clock reads of a storeEvent fall in
\* the same millisecond
NextLogs ==
    \/ /\ LogsBudget
       /\ \E streamId \in Streams, random \in RandomSuffixes :
             storeEvent(streamId, random, now)
       /\ UNCHANGED client
    \/ /\ LogsBudget
       /\ \E streamId \in Streams, random \in RandomSuffixes :
             storeEventOther(streamId, random, now)
       /\ UNCHANGED client
    \/ Tick /\ UNCHANGED client
    \/ /\ \E e \in {events[i].id : i \in 1..Len(events)} \cup {UnknownEventId} : ReplayStart(e)
       /\ UNCHANGED client
    \/ ReplayResume /\ UNCHANGED client
    \/ Detach /\ UNCHANGED client

SpecLogs == InitStore /\ [][NextLogs]_vars

\* ------------------------------------------------------------ the client of a stream
\* what the step just taken shows the client: a message written to its stream, by
\* the replay or live, is the last it received; when it attaches it presents
\* the last message it received; a message stored while no stream is attached is
\* one it missed
clientAfter ==
    LET wire == replay'.sent \o live'
    IN  [received |-> IF wire # <<>> /\ wire # replay.sent \o live
                      THEN wire[Len(wire)] ELSE client.received,
         reattachedWith |-> IF replay.pc = "idle" /\ replay'.pc # "idle"
                            THEN client.received ELSE client.reattachedWith,
         missed |-> IF replay.pc = "idle" /\ Len(appended') > Len(appended)
                    THEN client.missed \cup {Len(appended')} ELSE client.missed]

\* a client that attaches with the identifier of the last message it received,
\* or, having received none, with any identifier it knows of
LastEventIds ==
    IF client.received = 0
    THEN {events[i].id : i \in 1..Len(events)}
    ELSE {appended[client.received].id}

\* one store and the client of one of its streams, which attaches, drops the
\* stream and attaches again; the events are those of stream s1 and at most one
\* of stream s2, and the two clock reads of a storeEvent fall in the same
\* millisecond
NextReattach ==
    \/ /\ \E random \in RandomSuffixes : storeEvent("s1", random, now)
       /\ client' = clientAfter
    \/ /\ \A i \in 1..Len(appended) : appended[i].streamId = "s1"
       /\ storeEvent("s2", "a", now)
       /\ client' = clientAfter
    \/ Tick /\ UNCHANGED client
    \/ /\ \E e \in LastEventIds : ReplayStart(e)
       /\ client' = clientAfter
    \/ ReplayResume /\ client' = clientAfter
    \/ Detach /\ UNCHANGED client

SpecReattach == InitStore /\ [][NextReattach]_vars

\* ------------------------------------------------------------ a send that rejects
\* a loop that would catch the rejection of a send and go on to the next entry
sendRejected_caught(r) ==
    LET i == replayLoop(r.ordered, r.i + 1, TRUE, r.lastEventId, r.result)
    IN  [r EXCEPT !.pc = "rejected",
                  !.i = i,
                  !.sent = IF i > Len(r.ordered) THEN @ ELSE Append(@, r.ordered[i].message)]

\* `await send(eventId, event.message)` rejects: nothing in replayEventsAfter
\* catches, the exception leaves the loop and the promise of the replay rejects
sendRejected(r) == [r EXCEPT !.pc = "rejected"]

\* the awaited send has rejected
ReplayReject ==
    /\ replay.pc = "sending"
    /\ replay' = sendRejected(replay)
    /\ UNCHANGED <<server, rest, events, now, appended, live, otherEvents>>

\* one store whose replays may fail in a send: the events are those of stream
\* s1 and at most one of stream s2, and the two clock reads of a storeEvent
\* fall in the same millisecond
NextReplay ==
    \/ /\ \E random \in RandomSuffixes : storeEvent("s1", random, now)
       /\ UNCHANGED client
    \/ /\ \A i \in 1..Len(appended) : appended[i].streamId = "s1"
       /\ storeEvent("s2", "a", now)
       /\ UNCHANGED client
    \/ Tick /\ UNCHANGED client
    \/ /\ \E e \in {events[i].id : i \in 1..Len(events)} \cup {UnknownEventId} : ReplayStart(e)
       /\ UNCHANGED client
    \/ ReplayResume /\ UNCHANGED client
    \/ ReplayReject /\ UNCHANGED client
    \/ Detach /\ UNCHANGED client

SpecReplay == InitStore /\ [][NextReplay]_vars

\* ------------------------------------------------------------ the Domain Handler
\* calculate with operands that evaluate, calculate with a zero divisor, and
\* the read of the history (history-summary)
Operations == {"add", "divideByZero", "history-summary"}

\* a registry that would hand every session the same handler
createExampleMcpServer_shared(t) == sharedMcpServer

\* createExampleMcpServer(): a new McpServer with a new `history` array for every
\* call; the handler is named after the transport it is created for
createExampleMcpServer(t) == t

\* the handler a new session's transport is connected to: the one
\* createSessionTransport creates for it, or sharedMcpServer
handlerOf(t) ==
    IF variant = "registry" THEN createExampleMcpServer(t) ELSE sharedMcpServer

\* evaluate(left, right, operation): throws for a zero divisor
evaluate(op) == IF op = "divideByZero" THEN "throws" ELSE "returns"

\* a calculation record, told by the session whose call pushed it
Record(t) == [by |-> t]

\* the sessions whose records a response shows
authors(records) == {records[i].by : i \in 1..Len(records)}

\* a calculate that would push its record before it evaluates
calculate_pushFirst(history, t, op) ==
    [history |-> Append(history, Record(t)),
     kind |-> IF evaluate(op) = "throws" THEN "failure" ELSE "result",
     seen |-> {}]

\* the calculate tool: evaluate first, then history.push(record); a throw leaves
\* the history as it was and becomes the failure result of this call
calculate(history, t, op) ==
    IF evaluate(op) = "throws"
    THEN [history |-> history, kind |-> "failure", seen |-> {}]
    ELSE [history |-> Append(history, Record(t)), kind |-> "result", seen |-> {t}]

\* the history-summary tool / calculation-history resource: reads the array
historySummary(history) ==
    [history |-> history, kind |-> "summary", seen |-> authors(history)]

\* the records in all histories
RECURSIVE pushed(_)
pushed(hs) ==
    IF hs = {} THEN 0
    ELSE LET h == CHOOSE x \in hs : TRUE IN Len(hist[h]) + pushed(hs \ {h})

execute(history, t, op) ==
    IF op = "history-summary" THEN historySummary(history) ELSE calculate(history, t, op)

\* server.connect(transport): the handler sends through the transport it was
\* connected to last
connect(c, h, t) == [c EXCEPT ![h] = t]

\* the close of a transport reaches the handler it was connected to
\* (closeServer in the registry, the transport's onclose in both): the handler
\* has no transport afterwards
handlerOnclose(c, h) == [c EXCEPT ![h] = 0]

\* a session is created: its transport is connected to its handler
Connect(t) ==
    /\ sess[t].status = "absent"
    /\ \A u \in T : u < t => sess[u].status # "absent"
    /\ sess' = [sess EXCEPT ![t] = [status |-> "bound", handler |-> handlerOf(t)]]
    /\ conn' = connect(conn, handlerOf(t), t)
    /\ UNCHANGED <<server, store, browser, routing, background, process, hist, calls, obs>>

\* a tools/call of session t reaches its handler, which runs to its response;
\* one call is in flight at a time
CallStart(t, op) ==
    /\ sess[t].status = "bound"
    /\ pushed(Handlers) < MaxCalls
    /\ calls = {}
    /\ LET h == sess[t].handler
           r == execute(hist[h], t, op)
       IN  /\ hist' = [hist EXCEPT ![h] = r.history]
           /\ calls' = calls \cup {[t |-> t, op |-> op, kind |-> r.kind, seen |-> r.seen]}
    /\ UNCHANGED <<server, store, browser, routing, background, process, sess, conn, obs>>

\* the response of a call is sent through the transport the handler is
\* connected to; it reaches the caller if that is the caller's transport
CallRespond(c) ==
    /\ c \in calls
    /\ calls' = calls \ {c}
    /\ obs' = IF conn[sess[c.t].handler] = c.t /\ sess[c.t].status = "bound"
              THEN [obs EXCEPT ![c.t] = [kind |-> c.kind, seen |-> c.seen]]
              ELSE obs
    /\ UNCHANGED <<server, store, browser, routing, background, process, sess, hist, conn>>

\* session t is closed (DELETE, channel drop, closeSession): its entry and
\* transport go, and the close reaches the handler the transport was connected to
Close(t) ==
    /\ sess[t].status = "bound"
    /\ sess' = [sess EXCEPT ![t].status = "closed"]
    /\ conn' = handlerOnclose(conn, sess[t].handler)
    /\ UNCHANGED <<server, store, browser, routing, background, process, hist, calls, obs>>

NextHandler ==
    \/ \E t \in T : Connect(t)
    \/ \E t \in T, op \in Operations : CallStart(t, op)
    \/ \E c \in calls : CallRespond(c)
    \/ \E t \in T : Close(t)

SpecHandler == Init /\ [][NextHandler]_vars

\* ------------------------------------------------------------ demo_progress
\* sendNotification of a handler's request context: the handler sends through
\* the transport it is connected to when it is called; connected to none the
\* call rejects, otherwise the transport writes the message or rejects
sendNotification(c, h) == IF c[h] = 0 THEN {"rejected"} ELSE Outcomes

\* the try block of the loop once a sendNotification has settled: the start
\* message, for (i = 20; i <= 100; i += 20) a progress message, the completion
\* message; a rejection goes to the catch block
progressTry(tk, outcome) ==
    IF outcome = "rejected" THEN [tk EXCEPT !.pc = "catch", !.caught = 1]
    ELSE CASE tk.pc = "start" -> [tk EXCEPT !.pc = "loop", !.i = 20]
           [] tk.pc = "loop" /\ tk.i + 20 <= 100 -> [tk EXCEPT !.i = tk.i + 20]
           [] tk.pc = "loop" /\ tk.i + 20 > 100 -> [tk EXCEPT !.pc = "completion"]
           [] tk.pc = "completion" -> [tk EXCEPT !.pc = "done"]

\* a catch block that would send its error notification without a try of its own
progressCatch_bare(tk, outcome) ==
    [task |-> [tk EXCEPT !.pc = "done", !.caught = IF outcome = "rejected" THEN 2 ELSE 1],
     escapes |-> (outcome = "rejected")]

\* the catch block: its error notification is sent inside a second try, whose
\* catch only logs; nothing leaves the async function
progressCatch(tk, outcome) ==
    [task |-> [tk EXCEPT !.pc = "done", !.caught = IF outcome = "rejected" THEN 2 ELSE 1],
     escapes |-> FALSE]

\* tools/call demo_progress with a progressToken: the handler starts the loop
\* with void (async () => ...)() and returns
DemoProgress(t) ==
    /\ sess[t].status = "bound"
    /\ task[t].pc = "none"
    /\ task' = [task EXCEPT ![t] = [NoTask EXCEPT !.pc = "start"]]
    /\ UNCHANGED <<server, store, browser, domain, routing, process, notes, unhandled>>

\* the loop of session t goes on to its next sendNotification, which settles;
\* it reads nothing of its session or its transport before it sends
ProgressStep(t) ==
    /\ task[t].pc \in {"start", "loop", "completion", "catch"}
    /\ \E outcome \in sendNotification(conn, sess[t].handler) :
         /\ notes' = [notes EXCEPT ![t] = IF outcome = "fulfilled" THEN @ + 1 ELSE @]
         /\ IF task[t].pc = "catch"
            THEN LET r == progressCatch(task[t], outcome)
                 IN  /\ task' = [task EXCEPT ![t] = r.task]
                     /\ unhandled' = (unhandled \/ r.escapes)
            ELSE /\ task' = [task EXCEPT ![t] = progressTry(task[t], outcome)]
                 /\ unhandled' = unhandled
    /\ UNCHANGED <<server, store, browser, domain, routing, process>>

\* session t is closed: as Close(t), and in the registry the close callback
\* has called closeSession without awaiting it (void this.closeSession(...)),
\* so a rejection of that promise is nobody's; server.ts deletes the entry in
\* its callback and starts no promise. The loop of the session is not touched.
SessionClose(t) ==
    /\ sess[t].status = "bound"
    /\ sess' = [sess EXCEPT ![t].status = "closed"]
    /\ conn' = handlerOnclose(conn, sess[t].handler)
    /\ \E transportClose \in Outcomes, closeServer \in Outcomes :
         unhandled' = (unhandled \/ (variant = "registry"
                          /\ allSettled({transportClose, closeServer}) = "rejected"))
    /\ UNCHANGED <<server, store, browser, routing, process, hist, calls, obs, task, notes>>

NextNotify ==
    \/ \E t \in T : Connect(t)
    \/ \E t \in T : DemoProgress(t)
    \/ \E t \in T : ProgressStep(t)
    \/ \E t \in T : SessionClose(t)

SpecNotify == Init /\ [][NextNotify]_vars

\* ------------------------------------------------------------ the routers' error paths
\* the routers a request can come in through: http-server.ts and the starter
\* template's create-mcp-server.ts in front of a SessionRegistry, server.ts in
\* front of its `transports` object
Builds ==
    IF variant = "registry" THEN {"http-server", "template"} ELSE {"server.ts"}

\* the router's own code throws: the exception goes to its catch block
Throws == [kind |-> "throw", status |-> 0, code |-> 0, t |-> 0]

\* createHttpServer of the starter template: readJsonBody is awaited inside the
\* try block with no catch of its own; every error it answers carries -32000
createHttpServer(m, s, b) ==
    CASE m = "POST" /\ b = "malformed" -> Throws
      [] b # "malformed" /\ s # NoId /\ get(s) = Undefined -> AnswerWith(404, -32000)
      [] b # "malformed" /\ s # NoId /\ get(s) # Undefined -> HandTo(get(s))
      [] b # "malformed" /\ s = NoId /\ m = "POST" /\ b # "initialize" -> AnswerWith(400, -32000)
      [] b # "malformed" /\ s = NoId /\ m = "POST" /\ b = "initialize" -> CreateSession
      [] b # "malformed" /\ s = NoId /\ m # "POST" -> AnswerWith(400, -32000)

\* the disposition of a request by the router of a build; in server.ts the
\* call of an inherited member as a transport throws a TypeError
route(build, m, s, b) ==
    CASE build = "http-server" -> handleMcpRequest(m, s, b)
      [] build = "template" -> createHttpServer(m, s, b)
      [] build = "server.ts" ->
            IF sseHandler(m, s, b) = AnswerWith(500, -32603) THEN Throws
            ELSE sseHandler(m, s, b)

\* sendJson of http-server.ts: nothing if the headers are sent, else status,
\* body and res.end
sendJson(r, status, code, detail) ==
    IF r.headersSent THEN r
    ELSE [status |-> status, code |-> code, detail |-> detail,
          headersSent |-> TRUE, ended |-> TRUE]

\* the catch block of a router, entered with the response as it is and the
\* message of the error: the response afterwards, and whether the block threw
\* itself (an unhandled rejection of the async request listener)
catchBlock(build, r, text) ==
    CASE build = "http-server" ->
            [res |-> sendJson(r, 500, -32603, ""), crashed |-> FALSE]
      [] build = "template" ->
            \* sendJson without the headersSent test: res.setHeader throws
            IF r.headersSent THEN [res |-> r, crashed |-> TRUE]
            ELSE [res |-> [status |-> 500, code |-> -32000, detail |-> "",
                           headersSent |-> TRUE, ended |-> TRUE],
                  crashed |-> FALSE]
      [] build = "server.ts" ->
            \* message: `Internal Server Error: ${errorMessage}`
            [res |-> IF r.headersSent THEN r
                     ELSE [status |-> 500, code |-> -32603, detail |-> text,
                           headersSent |-> TRUE, ended |-> TRUE],
             crashed |-> FALSE]

\* a request comes in through a router: the router answers it, throws, or hands
\* it to a transport (a new one for a handshake) and awaits handleRequest
RouterReceive(build, m, s, b) ==
    /\ rq.pc = "none"
    /\ ~crashed
    /\ LET d == route(build, m, s, b)
           caught == catchBlock(build, NoRes, "TypeError")
       IN  /\ rq' = [pc |-> IF d.kind \in {"answer", "throw"} THEN "done" ELSE "inTransport",
                     build |-> build, m |-> m, s |-> s, b |-> b, kind |-> d.kind,
                     raised |-> (d.kind = "throw" /\ b # "malformed")]
           /\ res' = CASE d.kind = "answer" -> sendJson(NoRes, d.status, d.code, "")
                       [] d.kind = "throw" -> caught.res
                       [] OTHER -> NoRes
           /\ crashed' = (d.kind = "throw" /\ caught.crashed)
           /\ tp' = IF d.kind = "create" /\ FreshT \in T THEN NewTransport(m, s, b) ELSE tp
    /\ UNCHANGED <<variant, sessions, transports, req, known, terminated, shutdown,
                   store, browser, domain, background, process>>

\* transport.handleRequest resolves: the transport has answered the request
TransportAnswers ==
    /\ rq.pc = "inTransport"
    /\ rq.kind = "hand"
    /\ rq' = [rq EXCEPT !.pc = "done"]
    /\ res' = [status |-> 200, code |-> 0, detail |-> "", headersSent |-> TRUE,
               ended |-> TRUE]
    /\ UNCHANGED <<server, store, browser, domain, background, process, crashed>>

\* transport.handleRequest (or createSessionTransport) rejects, before or after
\* the transport has written the response headers: the catch block runs
TransportRejects(headersSent, text) ==
    /\ rq.pc = "inTransport"
    /\ LET r == IF headersSent
                THEN [NoRes EXCEPT !.status = 200, !.headersSent = TRUE]
                ELSE NoRes
           caught == catchBlock(rq.build, r, text)
       IN  /\ res' = caught.res
           /\ crashed' = caught.crashed
    /\ rq' = [rq EXCEPT !.pc = "done", !.raised = TRUE]
    /\ UNCHANGED <<server, store, browser, domain, background, process>>

\* the next request
RouterNext ==
    /\ rq.pc = "done"
    /\ ~crashed
    /\ rq' = NoRq
    /\ res' = NoRes
    /\ UNCHANGED <<server, store, browser, domain, background, process, crashed>>

\* the routers with the handshakes that give them sessions to look up
NextRouter ==
    \/ ~crashed /\ McpRequest("POST", NoId, "initialize")
    \/ ~crashed /\ SseRequest("POST", NoId, "initialize")
    \/ ~crashed /\ \E q \in InFlight : Handshake(q)
    \/ ~crashed /\ \E q \in InFlight : HandshakeResponse(q)
    \/ \E build \in Builds, in \in Inputs, s \in ClientIds :
          RouterReceive(build, in[1], s, in[2])
    \/ TransportAnswers
    \/ \E headersSent \in BOOLEAN, text \in ErrorTexts : TransportRejects(headersSent, text)
    \/ RouterNext

SpecRouter == Init /\ [][NextRouter]_vars

\* gracefulShutdown belongs to the entry point of the registry server
InitShutdown == Init /\ variant = "registry"

SpecShutdown == InitShutdown /\ [][NextShutdown]_vars

\* ------------------------------------------------------------ a handshake that fails
\* transport.handleRequest answers the initialize request of a new transport
\* with an error (an Accept header or a protocol version it refuses) or
\* rejects, before an identifier is generated: no callback runs, and
\* handleMcpRequest does nothing more with the transport it created
HandshakeRejected(q) ==
    /\ q.pc = "connecting"
    /\ req' = Remove(q)
    /\ UNCHANGED <<variant, sessions, transports, tp, known, terminated, shutdown, store, rest>>

NextHandshake ==
    \/ NextShutdown
    \/ \E q \in InFlight : closeAllPc \in {"idle", "pending"} /\ HandshakeRejected(q)

SpecHandshake == InitShutdown /\ [][NextHandshake]_vars

\* ------------------------------------------------------------ gracefulShutdown
\* a GET of a client with a session: the transport keeps the response open as
\* the notification stream of the session, until the client goes away
OpenStream(s) ==
    /\ get(s) # Undefined
    /\ McpRequest("GET", s, "none")

\* SIGINT / SIGTERM: gracefulShutdown runs to its first await; httpServer.close()
\* has stopped the server from accepting connections
Signal ==
    /\ exitPc = "running"
    /\ exitPc' = "closing"
    /\ UNCHANGED <<server, store, browser, domain, routing, background, sweep>>

\* the callback of httpServer.close(): node calls it when no connection of the
\* server is left; it resolves the promise gracefulShutdown awaits
httpServerClose ==
    /\ exitPc = "closing"
    /\ req = EmptyBag
    /\ exitPc' = "closed"
    /\ UNCHANGED <<server, store, browser, domain, routing, background, sweep>>

\* process.exit(0), after the await of registry.closeAll()
processExit ==
    /\ exitPc = "closed"
    /\ closeAllPc = "resolved"
    /\ exitPc' = "exited"
    /\ UNCHANGED <<server, store, browser, domain, routing, background, sweep>>

\* what the process does by itself, given the time
gracefulShutdown ==
    \/ \E q \in InFlight : Handshake(q)
    \/ \E q \in InFlight : HandshakeResponse(q)
    \/ httpServerClose
    \/ exitPc = "closed" /\ CloseAll
    \/ \E t \in T : CloseSessionSettled(t)
    \/ CloseAllSettled
    \/ processExit

\* the entry point: clients initialize sessions and open notification streams
\* while the server accepts connections, and end their streams when they choose
NextExit ==
    \/ exitPc = "running" /\ McpRequest("POST", NoId, "initialize")
    \/ \E s \in ClientIds : exitPc = "running" /\ OpenStream(s)
    \/ \E q \in InFlight : TransportHandle(q)
    \/ Signal
    \/ gracefulShutdown

SpecExit == InitShutdown /\ [][NextExit]_vars /\ WF_vars(gracefulShutdown)

\* ------------------------------------------------------------ the shutdown iterations
\* the iteration a server runs over its session map when it shuts down:
\* SessionRegistry.closeAll, shutdown of server.ts, and the SIGINT handler of
\* the legacy server, which keeps the same `transports` object
SweepLoops == IF variant = "registry" THEN {"closeAll"} ELSE {"shutdown", "SIGINT"}

\* [...this.sessions.keys()], Object.keys(transports), for (... in transports):
\* the keys of the map in insertion order, which is the order they were minted in
ownKeys(m) == SelectSeq([n \in 1..MaxTransports |-> Uuid(n)], LAMBDA k : k \in DOMAIN m)

\* a loop body that would call close() on whatever the map returns
sweepVisit_unguarded(m, sid) == IF sid \in DOMAIN m THEN "close" ELSE "error"

\* what the body of a loop does with identifier sid: closeSession returns when
\* the registry has no entry, the other two test `if (transport)`
sweepVisit(m, sid) == IF sid \in DOMAIN m THEN "close" ELSE "skip"

\* one pass of the body of loop lp for identifier sid. st: the map, the
\* transports, the close() calls and the exceptions so far. close() fires
\* transport.onclose before it returns: closeSession again in the registry, the
\* delete of the entry in the other two; the SIGINT handler deletes it once more
sweepBody(lp, st, sid) ==
    LET v == sweepVisit(st.m, sid)
    IN  CASE v = "skip" -> st
          [] v = "error" -> [st EXCEPT !.errors = @ + 1]
          [] v = "close" ->
               LET t == st.m[sid]
                   m1 == IF lp = "closeAll" THEN closeSession_map(st.m, sid)
                         ELSE singleton_onclose(st.m, sid)
                   tps1 == IF lp = "closeAll" THEN closeSession_tp(st.tps, st.m, sid)
                           ELSE [st.tps EXCEPT ![t].status = "closed"]
               IN  [m |-> CASE lp = "closeAll" -> closeSession_map(m1, sid)
                            [] lp = "shutdown" -> m1
                            [] lp = "SIGINT" -> singleton_onclose(m1, sid),
                    tps |-> IF lp = "closeAll" THEN closeSession_tp(tps1, m1, sid) ELSE tps1,
                    attempts |-> [st.attempts EXCEPT ![t] = @ + 1],
                    errors |-> st.errors]

\* a loop that runs over its keys without an await between two passes
RECURSIVE sweepAll(_, _, _)
sweepAll(lp, st, keys) ==
    IF keys = <<>> THEN st
    ELSE sweepAll(lp, sweepBody(lp, st, Head(keys)), Tail(keys))

\* the iteration starts. closeAll() and shutdown run through all keys in one
\* synchronous stretch; the SIGINT handler takes its snapshot and awaits
\* transport.close() in every pass
SweepStart(lp) ==
    /\ sweep.pc = "idle"
    /\ lp \in SweepLoops
    /\ LET m == IF variant = "registry" THEN sessions ELSE transports
           st0 == [m |-> m, tps |-> tp, attempts |-> sweep.attempts, errors |-> 0]
           st == IF lp = "SIGINT" THEN st0 ELSE sweepAll(lp, st0, ownKeys(m))
       IN  /\ sweep' = [pc |-> IF lp = "SIGINT" /\ ownKeys(m) # <<>> THEN "running" ELSE "done",
                        loop |-> lp,
                        keys |-> IF lp = "SIGINT" THEN ownKeys(m) ELSE <<>>,
                        live |-> DOMAIN m,
                        attempts |-> st.attempts,
                        errors |-> st.errors]
           /\ tp' = st.tps
           /\ IF variant = "registry"
              THEN sessions' = st.m /\ UNCHANGED transports
              ELSE transports' = st.m /\ UNCHANGED sessions
    /\ UNCHANGED <<variant, req, known, terminated, shutdown, store, browser, domain, routing,
                   background, exitPc>>

\* one pass of the SIGINT handler's loop, up to its await
SweepStep ==
    /\ sweep.pc = "running"
    /\ LET st == sweepBody("SIGINT",
                           [m |-> transports, tps |-> tp, attempts |-> sweep.attempts,
                            errors |-> sweep.errors],
                           Head(sweep.keys))
       IN  /\ sweep' = [sweep EXCEPT !.pc = IF Tail(sweep.keys) = <<>> THEN "done" ELSE "running",
                                     !.keys = Tail(sweep.keys),
                                     !.attempts = st.attempts,
                                     !.errors = st.errors]
           /\ tp' = st.tps
           /\ transports' = st.m
    /\ UNCHANGED <<variant, sessions, req, known, terminated, shutdown, store, browser, domain,
                   routing, background, exitPc>>

\* the server beside its shutdown iteration: sessions are created, terminated by
\* DELETE and dropped by their clients until the iteration is through
NextSweep ==
    \/ sweep.pc # "done" /\ McpRequest("POST", NoId, "initialize")
    \/ sweep.pc # "done" /\ SseRequest("POST", NoId, "initialize")
    \/ \E s \in known : sweep.pc # "done" /\ McpRequest("DELETE", s, "none")
    \/ \E s \in known : sweep.pc # "done" /\ SseRequest("DELETE", s, "none")
    \/ \E q \in InFlight : sweep.pc # "done" /\ Handshake(q)
    \/ \E q \in InFlight : sweep.pc # "done" /\ HandshakeResponse(q)
    \/ \E q \in InFlight : sweep.pc # "done" /\ Terminate(q)
    \/ \E q \in InFlight : sweep.pc # "done" /\ TerminateResponse(q)
    \/ \E t \in T : sweep.pc # "done" /\ CloseSessionSettled(t)
    \/ \E t \in T : sweep.pc # "done" /\ ChannelClose(t)
    \/ \E lp \in {"closeAll", "shutdown", "SIGINT"} : SweepStart(lp)
    \/ SweepStep

SpecSweep == Init /\ [][NextSweep]_vars

\* the session map of the server at hand: SessionRegistry.sessions or the
\* `transports` object
registered == IF variant = "registry" THEN sessions ELSE transports

\* the identifiers minted so far
issued == {tp[t].sessionId : t \in Minted}

\* ------------------------------------------------------------ introspection
\* list(): one entry of metadata per value of the map, in insertion order
\* (creation time and history length are left out: they are read, not written)
list == [i \in 1..Len(ownKeys(sessions)) |-> [sessionId |-> ownKeys(sessions)[i]]]

\* the body of the answer of GET /health
healthReply == [ok |-> TRUE, activeSessions |-> count, sessions |-> list]

\* GET /health: sendJson(res, 200, ...) and return; nothing is assigned
HealthRequest ==
    /\ variant = "registry"
    /\ healthReply.ok
    /\ UNCHANGED vars

\* the registry server with its sessions being created, terminated, dropped and
\* closed by closeAll(), and asked for its health at any moment
NextHealth ==
    \/ sweep.pc # "done" /\ McpRequest("POST", NoId, "initialize")
    \/ \E s \in known : sweep.pc # "done" /\ McpRequest("DELETE", s, "none")
    \/ \E q \in InFlight : Handshake(q)
    \/ \E q \in InFlight : HandshakeRejected(q)
    \/ \E q \in InFlight : HandshakeResponse(q)
    \/ \E q \in InFlight : Terminate(q)
    \/ \E q \in InFlight : TerminateResponse(q)
    \/ \E t \in T : CloseSessionSettled(t)
    \/ \E t \in T : ChannelClose(t)
    \/ SweepStart("closeAll")
    \/ HealthRequest

SpecHealth == InitShutdown /\ [][NextHealth]_vars

\* ------------------------------------------------------------ the legacy server
\* src/server/index.ts: GET /connect opens the stream of a session, POST
\* /messages?sessionId= carries its requests; `transports` is a plain object
SendText(status, text) == [kind |-> "answer", status |-> status, text |-> text, t |-> 0]

\* app.post('/messages'): what the handler does with the query parameter
messagesHandler(sessionId) ==
    CASE sessionId = NoId -> SendText(400, "Missing sessionId parameter")
      [] sessionId # NoId /\ lookup(sessionId) = Undefined -> SendText(404, "Session not found")
      \* an inherited member is truthy: handlePostMessage is not a function, the
      \* TypeError is caught
      [] sessionId # NoId /\ lookup(sessionId) = Inherited -> SendText(500, "Error handling request")
      [] sessionId # NoId /\ lookup(sessionId) \in T -> HandTo(lookup(sessionId))

\* an onclose that would leave the entry in the map
legacy_onclose_keep(m, sessionId) == m

\* transport.onclose of the legacy server: delete transports[sessionId]
legacy_onclose(m, sessionId) == MapDelete(m, sessionId)

\* app.get('/connect'): the transport has its identifier from its constructor
\* and is stored before server.connect(transport) starts the stream, whose
\* first event tells the client the identifier
LegacyConnect ==
    /\ variant = "singleton"
    /\ FreshT \in T
    /\ LET sessionId == Uuid(Cardinality(Minted) + 1)
       IN  /\ tp' = [tp EXCEPT ![FreshT] = [NoTransport EXCEPT !.status = "bound",
                                                               !.sessionId = sessionId,
                                                               !.origin = <<"GET", NoId, "none">>]]
           /\ transports' = MapSet(transports, sessionId, FreshT)
           /\ known' = known \cup {sessionId}
    /\ UNCHANGED <<variant, sessions, req, terminated, shutdown, store, rest>>

\* one POST /messages up to the await of transport.handlePostMessage
LegacyMessage(sessionId) ==
    /\ variant = "singleton"
    /\ LET d == messagesHandler(sessionId)
       IN  IF d.kind = "hand" THEN Suspend(sessionId, d.t, "inTransport")
           ELSE UNCHANGED req
    /\ UNCHANGED <<variant, sessions, transports, tp, known, terminated, shutdown, store, rest>>

\* the SSE stream of transport t closes: transport.onclose fires
LegacyClose(t) ==
    /\ variant = "singleton"
    /\ tp[t].status = "bound"
    /\ transports' = legacy_onclose(transports, tp[t].sessionId)
    /\ tp' = [tp EXCEPT ![t].status = "closed"]
    /\ UNCHANGED <<variant, sessions, req, known, terminated, shutdown, store, rest>>

NextLegacy ==
    \/ sweep.pc # "done" /\ LegacyConnect
    \/ \E s \in ClientIds : LegacyMessage(s)
    \/ \E q \in InFlight : TransportHandle(q)
    \/ \E t \in T : LegacyClose(t)
    \/ SweepStart("SIGINT")
    \/ SweepStep

InitLegacy == Init /\ variant = "singleton"

SpecLegacy == InitLegacy /\ [][NextLegacy]_vars

\* ------------------------------------------------------------ the browser client
\* BrowserSSECalculatorClient of demo-client.ts
RequestIds == 1..MaxPending

\* clearTimeout(handler.timeout): a timer that has fired stays fired
clearTimeout(timer) == IF timer = "armed" THEN "cleared" ELSE timer

\* handler.resolve / handler.reject: a promise that is settled stays as it is
settle(promise, how) == IF promise = "pending" THEN how ELSE promise

\* the catch block of request(): the entry, if there is one, loses its timer
\* and is deleted; the error is thrown again
requestCatch(c) ==
    IF c.entry
    THEN [c EXCEPT !.timer = clearTimeout(@), !.entry = FALSE, !.result = "rejected",
                   !.pc = "done"]
    ELSE [c EXCEPT !.result = "rejected", !.pc = "done"]

\* connect(): the endpoint event has arrived
BrowserConnect ==
    /\ ~browser.connected
    /\ browser' = [browser EXCEPT !.connected = TRUE]
    /\ UNCHANGED <<server, store, domain, routing, background, process>>

\* request() up to its await of fetch: the id is taken, the timer is set and
\* the entry is put in the table
BrowserRequest ==
    /\ browser.connected
    /\ browser.requestId < MaxPending
    /\ LET id == browser.requestId + 1
       IN  browser' = [browser EXCEPT !.requestId = id,
                                      !.pending[id] = [NoCall EXCEPT !.pc = "fetching",
                                                                     !.entry = TRUE,
                                                                     !.timer = "armed"]]
    /\ UNCHANGED <<server, store, domain, routing, background, process>>

FetchOutcomes == {"ok", "httpError", "networkError"}

\* the fetch of request id settles. ok: the call goes on to await
\* responsePromise; an answer that is not ok: the entry is deleted and the
\* error thrown into the catch block; fetch rejected: the catch block
FetchSettles(id, outcome) ==
    /\ browser.pending[id].pc = "fetching"
    /\ LET c == browser.pending[id]
       IN  browser' = [browser EXCEPT !.pending[id] =
                CASE outcome = "ok" -> [c EXCEPT !.pc = "awaiting"]
                  [] outcome = "httpError" -> requestCatch([c EXCEPT !.entry = FALSE])
                  [] outcome = "networkError" -> requestCatch(c)]
    /\ UNCHANGED <<server, store, domain, routing, background, process>>

\* return await responsePromise, once that promise is settled: its value is
\* returned, or its rejection goes through the catch block
AwaitSettles(id) ==
    /\ browser.pending[id].pc = "awaiting"
    /\ browser.pending[id].responsePromise # "pending"
    /\ LET c == browser.pending[id]
       IN  browser' = [browser EXCEPT !.pending[id] =
                IF c.responsePromise = "resolved"
                THEN [c EXCEPT !.result = "resolved", !.pc = "done"]
                ELSE requestCatch(c)]
    /\ UNCHANGED <<server, store, domain, routing, background, process>>

\* handleMessage of a message that carries id: with an entry in the table the
\* timer is cleared, the entry deleted and the promise settled; without one
\* nothing happens
handleMessage(id, kind) ==
    /\ browser.pending[id].pc # "none"
    /\ LET c == browser.pending[id]
       IN  browser' = [browser EXCEPT !.pending[id] =
                IF c.entry
                THEN [c EXCEPT !.timer = clearTimeout(@), !.entry = FALSE,
                               !.responsePromise = settle(@, IF kind = "error" THEN "rejected"
                                                             ELSE "resolved")]
                ELSE c]
    /\ UNCHANGED <<server, store, domain, routing, background, process>>

\* the callback of the 30-second timer of request id
TimerFires(id) ==
    /\ browser.pending[id].timer = "armed"
    /\ browser' = [browser EXCEPT !.pending[id].timer = "fired",
                                  !.pending[id].entry = FALSE,
                                  !.pending[id].responsePromise = settle(@, "rejected")]
    /\ UNCHANGED <<server, store, domain, routing, background, process>>

\* disconnect(): every entry loses its timer and is rejected, the table is
\* cleared
disconnect ==
    /\ browser.connected
    /\ browser' = [browser EXCEPT
            !.connected = FALSE,
            !.pending = [id \in RequestIds |->
                IF browser.pending[id].entry
                THEN [browser.pending[id] EXCEPT !.timer = clearTimeout(@), !.entry = FALSE,
                                                 !.responsePromise = settle(@, "rejected")]
                ELSE browser.pending[id]]]
    /\ UNCHANGED <<server, store, domain, routing, background, process>>

NextBrowser ==
    \/ BrowserConnect
    \/ BrowserRequest
    \/ \E id \in RequestIds, outcome \in FetchOutcomes : FetchSettles(id, outcome)
    \/ \E id \in RequestIds : AwaitSettles(id)
    \/ \E id \in RequestIds, kind \in {"result", "error"} : handleMessage(id, kind)
    \/ \E id \in RequestIds : TimerFires(id)
    \/ disconnect

SpecBrowser == InitLegacy /\ [][NextBrowser]_vars

\* ------------------------------------------------------------ properties
\* requests whose body parses: the ones that reach the session lookup
WellFormed == {in \in Inputs : in[2] # "malformed"}

\* C1: a request that carries a session identifier the registry has no entry
\* for is answered with the 'session not found' error, HTTP 404; it is handed to
\* no transport and creates none.
C1_UnknownSessionNotFound ==
    \A in \in WellFormed, s \in ClientIds \ {NoId} :
        /\ (variant = "registry" /\ s \notin DOMAIN sessions)
              => handleMcpRequest(in[1], s, in[2]) = AnswerWith(404, -32000)
        /\ (variant = "singleton" /\ s \notin DOMAIN transports)
              => sseHandler(in[1], s, in[2]) = AnswerWith(404, -32001)

\* C2: once a DELETE for session S has been answered, S is in the registry no
\* more and every later request carrying S (POST, GET or DELETE) is answered
\* with 'session not found'.
C2_TerminatedNotFound ==
    \A S \in terminated :
        /\ variant = "registry" =>
              /\ get(S) = Undefined
              /\ \A in \in WellFormed :
                    handleMcpRequest(in[1], S, in[2]) = AnswerWith(404, -32000)
        /\ variant = "singleton" =>
              /\ S \notin DOMAIN transports
              /\ \A in \in WellFormed :
                    sseHandler(in[1], S, in[2]) = AnswerWith(404, -32001)

\* a client holds the identifier of a session that was terminated after calls
\* on it, in either variant
C2_Witness == \E S \in terminated : S \in known

\* C3: a request carrying session identifier S is handed only to the transport
\* whose handshake minted S, whatever other sessions are open and however the
\* requests interleave: this holds for the router's decision in every state and
\* for every request that is with a transport.
C3_DispatchToOwnBinding ==
    /\ \A in \in WellFormed, s \in ClientIds \ {NoId} :
          LET d == IF variant = "registry" THEN handleMcpRequest(in[1], s, in[2])
                   ELSE sseHandler(in[1], s, in[2])
          IN  d.kind = "hand" => (d.t \in Minted /\ tp[d.t].sessionId = s)
    /\ \A q \in InFlight :
          q.pc \in {"inTransport", "terminate", "terminating"} => tp[q.t].sessionId = q.sid

\* two sessions are open and a request is in flight with the transport of each
C3_Witness ==
    \E q1 \in InFlight, q2 \in InFlight :
        /\ q1.pc = "inTransport" /\ q2.pc = "inTransport"
        /\ q1.t # q2.t
        /\ tp[q1.t].status = "bound" /\ tp[q2.t].status = "bound"

\* C5: from the moment closeSession(S) has started on a present session and
\* while its transport close and handler close are pending, get(S) returns absent
\* and the router answers S with 'session not found'.
C5_ClosingIsAbsent ==
    \A t \in T :
        tp[t].closing =>
            /\ get(tp[t].sessionId) = Undefined
            /\ \A in \in WellFormed :
                  handleMcpRequest(in[1], tp[t].sessionId, in[2]) = AnswerWith(404, -32000)

\* the closes of a session are pending while a client holds its identifier and
\* another request is still with its transport
C5_Witness ==
    \E t \in T :
        /\ tp[t].closing
        /\ tp[t].sessionId \in known
        /\ \E q \in InFlight : q.t = t /\ q.pc = "inTransport"

\* C8: createSessionTransport alone adds no entry; the entry is there from the
\* moment the identifier is assigned, before the handshake response is sent, and
\* stays until the session is closed, so an identifier a client holds is never
\* answered with 'session not found' while its session has not been closed.
C8_RegisteredWhenAssigned ==
    variant = "registry" =>
        /\ \A k \in DOMAIN sessions :
              sessions[k] \in T /\ tp[sessions[k]].sessionId = k
        /\ \A t \in T :
              tp[t].status = "bound" =>
                  /\ get(tp[t].sessionId) = t
                  /\ \A in \in WellFormed :
                        handleMcpRequest(in[1], tp[t].sessionId, in[2]) = HandTo(t)

\* an identifier is assigned and registered, its handshake response not yet
\* sent, while another transport is created and has no identifier yet
C8_Witness ==
    /\ variant = "registry"
    /\ \E q \in InFlight : q.pc = "respond" /\ get(tp[q.t].sessionId) = q.t
    /\ \E t \in T : tp[t].status = "unbound" /\ \A k \in DOMAIN sessions : sessions[k] # t

\* C9: a request without a session identifier that is not an initialize request
\* is answered with HTTP 400, not with the 404 of an unknown session, and creates
\* nothing; every transport, hence every registry entry, was created for an
\* initialize POST that carried no identifier.
C9_HandshakeRequired ==
    /\ \A in \in WellFormed \ {<<"POST", "initialize">>} :
          LET d == IF variant = "registry" THEN handleMcpRequest(in[1], NoId, in[2])
                   ELSE sseHandler(in[1], NoId, in[2])
          IN  d.kind = "answer" /\ d.status = 400
    /\ \A t \in Created : tp[t].origin = <<"POST", NoId, "initialize">>
    /\ \A k \in DOMAIN sessions : sessions[k] \in Created
    /\ \A k \in DOMAIN transports : transports[k] \in Created

\* a session is registered after requests without identifier were received
C9_Witness ==
    /\ variant = "registry"
    /\ Cardinality(DOMAIN sessions) = 2
    /\ handleMcpRequest("GET", NoId, "none") = AnswerWith(400, -32000)
    /\ handleMcpRequest("POST", NoId, "call") = AnswerWith(400, -32600)

\* C10: a request that carries a session identifier goes to the existing
\* session's transport or is rejected as 'session not found', also when its body
\* is an initialize request; it creates no session and no transport.
C10_IdentifierDecides ==
    \A in \in WellFormed, s \in ClientIds \ {NoId} :
        LET d == IF variant = "registry" THEN handleMcpRequest(in[1], s, in[2])
                 ELSE sseHandler(in[1], s, in[2])
        IN  \/ d.kind = "hand" /\ tp[d.t].sessionId = s
            \/ d.kind = "answer" /\ d.status = 404

\* C6: closeAll() called with N registered sessions never rejects, and leaves
\* none of the N in the registry: each of them is removed and its transport
\* closed whether or not the close of another one fails.
C6_CloseAllRemovesAll ==
    /\ closeAllPc # "rejected"
    /\ closeAllPc \in {"pending", "resolved"} =>
          /\ \A k \in closeAllLive : get(k) = Undefined
          /\ \A t \in T : tp[t].sessionId \in closeAllLive => tp[t].status = "closed"
    /\ closeAllPc = "resolved" => closeAllWait = {}

\* closeAll() has resolved after it was called with two sessions, and a close of
\* one of them rejected
C6_Witness ==
    /\ closeAllPc = "resolved"
    /\ Cardinality(closeAllLive) = 2
    /\ closeAllFailed

\* no two storeEvent calls have returned the same identifier
DistinctIds ==
    \A i \in 1..Len(appended), j \in 1..Len(appended) :
        i # j => appended[i].id # appended[j].id

\* the messages of the stream of the k-th append that were appended after it,
\* among the first upto appends, in append order
appendedAfter(k, upto) ==
    LET later == SelectSeq(SubSeq(appended, k + 1, upto),
                           LAMBDA e : e.streamId = appended[k].streamId)
    IN  [i \in 1..Len(later) |-> later[i].message]

C7_ReconnectNoGaps ==
    (DistinctIds /\ replay.pc = "done") =>
        \A k \in 1..Len(appended) :
            appended[k].id = replay.lastEventId =>
                replay.sent \o live = appendedAfter(k, Len(appended))

\* C11: the identifiers minted by different handshakes differ, and when every
\* transport created so far has completed its handshake and none is closed, the
\* registry holds exactly one entry per handshake, each pointing to the transport
\* of that handshake.
C11_HandshakeUniqueness ==
    variant = "registry" =>
        /\ \A t1 \in Minted, t2 \in Minted :
              t1 # t2 => tp[t1].sessionId # tp[t2].sessionId
        /\ (\A t \in Created : tp[t].status = "bound") =>
              /\ Cardinality(DOMAIN sessions) = Cardinality(Created)
              /\ \A t \in Created : get(tp[t].sessionId) = t

\* two handshakes ran concurrently: both have minted their identifier and
\* neither response has been sent
C11_Witness ==
    /\ variant = "registry"
    /\ Cardinality(DOMAIN sessions) = 2
    /\ \E q1 \in InFlight, q2 \in InFlight :
          q1.t # q2.t /\ q1.pc = "respond" /\ q2.pc = "respond"

\* identifiers closeSession can be called with
SessionIds == ClientIds \cup {tp[t].sessionId : t \in T}

\* C12: closeSession(S) for an S the registry has no entry for changes neither
\* the registry nor any transport, and closeSession(S) called twice leaves the
\* state closeSession(S) called once leaves.
C12_IdempotentClose ==
    \A S \in SessionIds :
        LET once_map == closeSession_map(sessions, S)
            once_tp == closeSession_tp(tp, sessions, S)
        IN  /\ get(S) = Undefined => (once_map = sessions /\ once_tp = tp)
            /\ closeSession_map(once_map, S) = once_map
            /\ closeSession_tp(once_tp, once_map, S) = once_tp

\* after the closeSession of a DELETE, transport.onclose has called closeSession
\* for the same identifier again, while another session is registered
C12_Witness ==
    /\ variant = "registry"
    /\ \E S \in terminated : S \in known
    /\ DOMAIN sessions # {}

\* C13: closeSession(S) on a present session calls both releases, closing the
\* transport and closing the handler, and its promise never rejects, whether or
\* not one of the two releases fails.
C13_BothReleasesAttempted ==
    \A t \in T :
        /\ (tp[t].closing \/ tp[t].released # {} \/ tp[t].settled # "")
              => tp[t].released = {"transport.close", "closeServer"}
        /\ tp[t].settled \in {"", "fulfilled"}
        /\ (tp[t].settled = "" /\ tp[t].released # {}) => tp[t].closing

\* the closeSession of the only session closeAll() found has settled although one
\* of its releases rejected
C13_Witness ==
    /\ closeAllFailed
    /\ Cardinality(closeAllLive) = 1
    /\ \E t \in T : /\ tp[t].sessionId \in closeAllLive
                    /\ tp[t].settled = "fulfilled"
                    /\ tp[t].released = {"transport.close", "closeServer"}

\* C14: a transport with an identifier that has closed, whatever closed it, is
\* not registered: its close callback has removed the entry, and in the registry
\* server it has released the handler of the session, without a terminate
\* request.
C14_ClosedNotRegistered ==
    \A t \in T :
        (tp[t].status = "closed" /\ tp[t].sessionId # NoId) =>
            /\ variant = "registry" =>
                  /\ get(tp[t].sessionId) = Undefined
                  /\ "closeServer" \in tp[t].released
            /\ variant = "singleton" => tp[t].sessionId \notin DOMAIN transports

\* the channel of a session has closed: no DELETE for it was received or is in
\* flight, a client holds its identifier, and a request is still with its
\* transport
C14_Witness ==
    \E t \in T :
        /\ tp[t].status = "closed"
        /\ tp[t].sessionId \in known
        /\ tp[t].sessionId \notin terminated
        /\ \A q \in InFlight : q.t = t => q.pc = "inTransport"
        /\ \E q \in InFlight : q.t = t

\* C15: once a transport with an identifier is closed (by terminate or by its
\* channel closing), every request that arrives for its identifier is answered
\* with 'session not found' and handed to no transport, also while the closes
\* closeSession started are still pending.
C15_ClosedIsTerminal ==
    \A t \in T :
        (tp[t].status = "closed" /\ tp[t].sessionId # NoId) =>
            \A in \in WellFormed :
                LET d == IF variant = "registry"
                         THEN handleMcpRequest(in[1], tp[t].sessionId, in[2])
                         ELSE sseHandler(in[1], tp[t].sessionId, in[2])
                IN  d.kind = "answer" /\ d.status = 404 /\ d.code \in {-32000, -32001}

\* two sessions were opened and both are closed, one by a DELETE and one by its
\* channel closing, the closes of one still pending
C15_Witness ==
    /\ \A t \in T : tp[t].status = "closed" /\ tp[t].sessionId \in known
    /\ \E t \in T : tp[t].sessionId \in terminated
    /\ \E t \in T : tp[t].sessionId \notin terminated /\ tp[t].closing

\* C16: replayEventsAfter(id) for an id the log does not hold sends nothing and
\* returns the empty string, and leaves the log as it is.
C16_UnknownReplay ==
    /\ [](  (replay.pc # "idle"
               /\ \A i \in 1..Len(events) : events[i].id # replay.lastEventId)
              => (replay.pc = "done" /\ replay.sent = <<>> /\ replay.result = ""))
    /\ [][ (replay.pc = "idle" /\ replay'.pc # "idle"
               /\ \A i \in 1..Len(events) : events[i].id # replay'.lastEventId)
              => /\ replay'.pc = "done" /\ replay'.sent = <<>> /\ replay'.result = ""
                 /\ events' = events /\ appended' = appended /\ live' = live ]_vars

\* a replay was asked for an identifier the log does not hold while the log
\* holds events of both streams; it has returned and nothing was sent
C16_Witness ==
    /\ replay.pc = "done"
    /\ replay.lastEventId = UnknownEventId
    /\ \A streamId \in Streams : \E i \in 1..Len(events) : events[i].streamId = streamId

\* C17: every event a replayEventsAfter(E) delivers was appended to the log of
\* the same session, on the stream of E: no event of another stream and no event
\* of another session's log is delivered, also when the other session's streams
\* and event identifiers have the same names.
C17_ReplayScoped ==
    /\ replay.result # "" => replay.result = replay.lastEventId[1]
    /\ \A i \in 1..Len(replay.sent) :
          \E k \in 1..Len(appended) :
              /\ appended[k].message = replay.sent[i]
              /\ appended[k].streamId = replay.result
    /\ \A i \in 1..Len(events) : events[i].message > 0
    /\ \A i \in 1..Len(otherEvents) : otherEvents[i].message < 0

\* a replay has delivered an event while the log of the other session holds an
\* event of the replayed stream with the identifier of an event of this log
C17_Witness ==
    /\ replay.pc = "done"
    /\ Len(replay.sent) >= 1
    /\ \E i \in 1..Len(otherEvents) :
          /\ otherEvents[i].streamId = replay.result
          /\ \E j \in 1..Len(events) : otherEvents[i].id = events[j].id

\* C18: every storeEvent call returns an identifier no earlier call on the log
\* returned, so no append replaces a stored entry and the log holds as many
\* entries as there were appends.
C18_FreshEventIds ==
    /\ \A i \in 1..Len(appended), j \in 1..Len(appended) :
          i # j => appended[i].id # appended[j].id
    /\ Len(events) = Len(appended)
    /\ \A i \in 1..Len(appended) : events[i].message = appended[i].message

\* the messages of the entries of a stream, in the order of the sequence
streamOrder(entries, streamId) ==
    LET own == SelectSeq(entries, LAMBDA e : e.streamId = streamId)
    IN  [i \in 1..Len(own) |-> own[i].message]

C21_HandlerIsolation ==
    /\ variant = "registry" =>
          \A t \in T :
              /\ sess[t].status # "absent" => authors(hist[sess[t].handler]) \subseteq {t}
              /\ obs[t].seen \subseteq {t}
    /\ variant = "singleton" =>
          \A t \in T :
              /\ sess[t].status # "absent" =>
                    /\ sess[t].handler = sharedMcpServer
                    /\ Len(hist[sess[t].handler]) = pushed(Handlers)
              /\ obs[t].seen \subseteq authors(hist[sharedMcpServer])

\* shared handler: session B has read a history that holds a record session A made
C21_Witness ==
    /\ variant = "singleton"
    /\ \E t \in T : obs[t].kind = "summary" /\ obs[t].seen \ {t} # {}

C23_CloseIsSessionScoped ==
    [][\A a \in T :
          (sess[a].status = "bound" /\ sess'[a].status = "closed") =>
              \A b \in T \ {a} :
                  /\ sess'[b] = sess[b]
                  /\ hist'[sess[b].handler] = hist[sess[b].handler]
                  /\ (sess[b].status = "bound" /\ conn[sess[b].handler] = b)
                        => conn'[sess[b].handler] = b]_vars

\* C24: an exception raised while a request is routed or handled is answered
\* with HTTP 500 and a message that holds no text of the error (here: whenever
\* the response headers were not sent before the exception).
C24_OpaqueInternalFailure ==
    (rq.pc = "done" /\ rq.raised /\ res.ended)
        => res.status = 500 /\ res.detail = ""

\* C25: a POST whose body does not parse is answered with HTTP 400, with or
\* without a session identifier, and the step that answers it changes neither
\* the registry nor a transport.
C25_MalformedIsClientFault ==
    [][(rq.pc = "none" /\ rq'.pc = "done" /\ rq'.b = "malformed")
          => /\ res'.status = 400
             /\ res'.ended
             /\ UNCHANGED <<sessions, transports, tp, req>>]_vars

\* C26: when a router is done with a request, the response is ended and the
\* process is alive, also when the failure came after the response headers.
C26_EveryRequestAnswered ==
    rq.pc = "done" => res.ended /\ ~crashed

\* C27: once a termination signal has started the graceful shutdown, the
\* shutdown goes on to closeAll(), every session is closed and the process
\* exits, also when a session has its notification stream open.
C27_ShutdownTerminates ==
    (exitPc = "closing") ~> (exitPc = "exited" /\ sessions = EmptyMap)

\* C28: the notification loop a demo_progress call started emits a
\* notification only while the session of the call is open: after the close of
\* the session the loop emits nothing more.
C28_NoEmissionAfterClose ==
    [][\A t \in T : notes'[t] # notes[t] => sess[t].status = "bound"]_vars

C30_SweepToleratesMutation ==
    sweep.pc # "idle" =>
        /\ sweep.errors = 0
        /\ \A t \in T : /\ sweep.attempts[t] <= 1
                        /\ sweep.attempts[t] = 1 => tp[t].sessionId \in sweep.live
        /\ sweep.pc = "done" =>
              \A t \in T : tp[t].sessionId \in sweep.live =>
                  /\ tp[t].status = "closed"
                  /\ tp[t].sessionId \notin DOMAIN sessions \cup DOMAIN transports

\* the SIGINT handler's loop is through; of the two sessions in its snapshot it
\* closed one, the other was closed by its client while the loop was awaiting
C30_Witness ==
    /\ sweep.pc = "done"
    /\ sweep.loop = "SIGINT"
    /\ Cardinality(sweep.live) = 2
    /\ \E t, u \in T : /\ tp[t].sessionId \in sweep.live
                       /\ tp[u].sessionId \in sweep.live
                       /\ sweep.attempts[t] = 1
                       /\ sweep.attempts[u] = 0

\* C31: a replay has at most one send in progress: a step issues at most one
\* send, and only when it starts the replay or when the send before it has
\* completed; once a send has rejected, the replay sends nothing more.
C31_ReplayBackPressure ==
    [][/\ Len(replay'.sent) > Len(replay.sent) =>
             /\ Len(replay'.sent) = Len(replay.sent) + 1
             /\ replay.pc \in {"idle", "sending"}
             /\ replay'.pc = "sending"
       /\ replay'.pc = "sending" => replay'.ordered[replay'.i].message = replay'.sent[Len(replay'.sent)]
       /\ replay'.pc = "rejected" => replay'.sent = replay.sent]_vars

\* the second send of a replay has rejected while an entry of the stream was
\* still to be sent
C31_Witness ==
    /\ replay.pc = "rejected"
    /\ Len(replay.sent) = 2
    /\ replayLoop(replay.ordered, replay.i + 1, TRUE, replay.lastEventId, replay.result)
          <= Len(replay.ordered)

\* C32: no step replaces the transport an identifier is registered for while
\* the identifier stays registered, and no transport is ever registered under
\* two identifiers.
C32_OneBindingPerIdentifier ==
    [][/\ \A k \in DOMAIN registered \cap DOMAIN registered' : registered'[k] = registered[k]
       /\ \A j, k \in DOMAIN registered' : registered'[j] = registered'[k] => j = k]_vars

\* two sessions are registered at once, the second minted while the first was
\* live
C32_Witness ==
    /\ Cardinality(DOMAIN registered) = 2
    /\ \E j, k \in DOMAIN registered : registered[j] # registered[k]

\* C38: an identifier enters the session map only in the step that mints it:
\* an identifier that was issued before, and so one that was removed, is never
\* inserted again.
C38_NeverRevived ==
    [][\A S \in DOMAIN registered' \ DOMAIN registered : S \notin issued]_vars

\* an identifier has been issued and removed while a session minted after it
\* is registered
C38_Witness ==
    \E t, u \in Minted : /\ t < u
                         /\ tp[t].sessionId \notin DOMAIN registered
                         /\ tp[u].sessionId \in DOMAIN registered

\* C35: the registry starts the two releases of a session, transport.close()
\* and closeServer(), at most once: a step starts them only for a transport
\* that is registered and that no closeSession has released or settled for
\* before, it starts both, and it takes the transport out of the registry.
C35_CloseRunsOnce ==
    [][\A t \in T :
          (tp'[t].closing /\ ~tp[t].closing) =>
              /\ tp[t].released = {}
              /\ tp[t].settled = ""
              /\ tp[t].sessionId \in DOMAIN sessions
              /\ sessions[tp[t].sessionId] = t
              /\ tp'[t].released = {"transport.close", "closeServer"}
              /\ tp[t].sessionId \notin DOMAIN sessions']_vars

\* closeAll() has run after a session was closed by a DELETE, whose
\* onsessionclosed and transport.onclose both called closeSession, and after
\* the releases of that session had settled
C35_Witness ==
    /\ sweep.pc = "done"
    /\ sweep.loop = "closeAll"
    /\ sweep.live # {}
    /\ \E t \in T : /\ tp[t].sessionId \in terminated
                    /\ tp[t].settled = "fulfilled"
                    /\ tp[t].released = {"transport.close", "closeServer"}

\* C37: when the promise of closeAll() has resolved the registry is empty,
\* count() is 0, also when a handshake was in flight when closeAll() was called.
C37_CloseAllLeavesEmpty ==
    closeAllPc = "resolved" => count = 0

\* C36: no transport is left open out of reach: a transport that
\* createSessionTransport has created and that is neither registered nor
\* closed is the transport of a handshake still in flight, which will register
\* it.
C36_NoOrphanedBinding ==
    \A t \in T :
        tp[t].status = "unbound" =>
            \E q \in InFlight : q.t = t /\ q.pc = "connecting"

\* C34: in the legacy server a session whose stream is open is in the
\* transports map and its POST /messages go to its transport; once its
\* transport has closed the entry is gone, the session stays closed, and a POST
\* /messages with its sessionId is answered 404 'Session not found' in every
\* later state.
C34_LostSessionNotRecovered ==
    [][\A t \in T :
          /\ tp'[t].status = "bound" =>
                (messagesHandler(tp[t].sessionId))' = HandTo(t)
          /\ tp[t].status = "closed" =>
                /\ tp'[t] = tp[t]
                /\ tp[t].sessionId \notin DOMAIN transports'
                /\ (messagesHandler(tp[t].sessionId))' = SendText(404, "Session not found")
          /\ (tp[t].status = "bound" /\ tp'[t].status = "closed") =>
                /\ tp[t].sessionId \notin DOMAIN transports'
                /\ (messagesHandler(tp[t].sessionId))' = SendText(404, "Session not found")]_vars

\* a POST /messages arrives for a session the client knows and whose stream
\* has closed, while another session is open
C34_Witness ==
    /\ variant = "singleton"
    /\ sweep.pc = "idle"
    /\ \E t \in T : tp[t].status = "closed" /\ tp[t].origin = <<"GET", NoId, "none">>
                    /\ tp[t].sessionId \in known
    /\ \E t \in T : tp[t].status = "bound" /\ tp[t].origin = <<"GET", NoId, "none">>
                    /\ \E q \in InFlight : q.t = t

\* C33: in every state of the registry server, count(), the activeSessions
\* that /health reports and the entries of list() are those of the sessions
\* whose handshake has completed and that have not been closed, get() returns
\* the binding of each of them, and a step that answers /health changes
\* nothing.
C33_IntrospectionExact ==
    LET open == {t \in T : tp[t].status = "bound"}
    IN  /\ count = Cardinality(open)
        /\ healthReply.activeSessions = Cardinality(open)
        /\ {list[i].sessionId : i \in DOMAIN list} = {tp[t].sessionId : t \in open}
        /\ Len(list) = Cardinality(open)
        /\ \A t \in open : get(tp[t].sessionId) = t
        /\ \A t \in T \ open : tp[t].sessionId # NoId => get(tp[t].sessionId) = Undefined

\* one session has been closed, another is open and a third handshake has
\* failed or is in flight: /health reports one
C33_Witness ==
    /\ variant = "registry"
    /\ healthReply.activeSessions = 1
    /\ \E t \in T : tp[t].status = "closed" /\ tp[t].sessionId \in known
    /\ \E t \in T : tp[t].status = "bound"

\* C39: a request() call whose promise is settled has no entry in
\* pendingRequests and no timer that can still fire; an entry in the table
\* has its timer armed and its promise pending; and while the client is
\* disconnected the table is empty.
C39_PendingRequestsSettledOnce ==
    \A id \in RequestIds :
        LET c == browser.pending[id]
        IN  /\ c.result # "pending" => (~c.entry /\ c.timer # "armed")
            /\ c.entry => (c.timer = "armed" /\ c.responsePromise = "pending"
                           /\ c.result = "pending")
            /\ ~browser.connected => ~c.entry

====
